---- MODULE Spec2Model ----
(***************************************************************************)
(* The game-session synchronisation logic of the App component of          *)
(* tic_tac_frontend/src/App.js: the React state of the component, the      *)
(* three request handlers (startNewGame, fetchGameState, handleCellClick), *)
(* the poll effect with its cleanup, the interval timers it creates, the   *)
(* requests in flight, and the remote game server the requests talk to.    *)
(*                                                                         *)
(* Granularity.  JavaScript runs every callback to completion and React    *)
(* batches the state updates of one callback into one render, so each      *)
(* callback (a click handler up to its await, the continuation of a        *)
(* handler after its awaits, an interval tick, one run of the poll effect) *)
(* is one action.  Between a render whose dependencies changed and the run *)
(* of the poll effect for that render other callbacks may be scheduled;    *)
(* the effect is therefore an action of its own (RunEffect) and a state in *)
(* which it has nothing to do is called Settled.  Time is abstracted: a    *)
(* live interval may tick whenever it is live.                             *)
(***************************************************************************)
EXTENDS Integers, Sequences, FiniteSets, Bags, TLC

VARIABLES
    gameId,         \* useState(null)                      App.js:171
    board,          \* useState([['','',''],...])          App.js:172
    currentPlayer,  \* useState('X')                       App.js:173
    status,         \* useState('ongoing')                 App.js:174
    winner,         \* useState(null)                      App.js:175
    moves,          \* useState(0)                         App.js:176
    loading,        \* useState(false)                     App.js:177
    error,          \* useState('')                        App.js:178
    pollInterval,   \* useState(null)                      App.js:181
    phase,          \* "new" (constructed), "mounted", "crashed" (a render threw)
    timers,         \* the live intervals: [h |-> handle, gid |-> gameId of the closure]
    effDeps,        \* <<gameId, status, pollInterval>> of the last run of the poll effect
    effCleanup,     \* the handle the cleanup returned by that run clears (NoHandle: none)
    net,            \* bag of the requests and responses in flight
    srv,            \* the server's games, by id
    srvCount,       \* the number of games the server has created
    lastOp          \* the callback that ran last, and what it did

vars == <<gameId, board, currentPlayer, status, winner, moves, loading, error,
          pollInterval, phase, timers, effDeps, effCleanup, net,
          srv, srvCount, lastOp>>

client == <<gameId, board, currentPlayer, status, winner, moves, loading, error>>
session == <<gameId, board, currentPlayer, status, winner, moves>>

-----------------------------------------------------------------------------
(* Bounds of the model. *)

MaxGames == 2       \* games the server creates before it answers 5xx to POST /game
MaxInFlight == 2    \* requests in flight at once
NumCells == 1       \* cells (row-major from the top left) the players click

-----------------------------------------------------------------------------
(* JavaScript values. *)

BoardSize == 3
NullId == 0             \* gameId === null
UndefinedId == 0 - 1    \* gameId === undefined
NoHandle == 0           \* pollInterval === null

EmptyBoard == << <<"", "", "">>, <<"", "", "">>, <<"", "", "">> >>
UndefinedBoard == << >>     \* board === undefined

Truthy(id) == id > 0    \* !!gameId, !!pollInterval

Cells == {rc \in (0..(BoardSize - 1)) \X (0..(BoardSize - 1)) :
            rc[1] * BoardSize + rc[2] < NumCells}

Cell(b, r, c) == b[r + 1][c + 1]

Place(b, r, c, p) == [b EXCEPT ![r + 1][c + 1] = p]

OrNull(w) == IF w \in {"undefined", "null", ""} THEN "null" ELSE w    \* w || null
OrZero(n) == IF n < 0 THEN 0 ELSE n                                    \* n || 0; -1: undefined

-----------------------------------------------------------------------------
(* The wire.  A request is in flight from its dispatch until the client    *)
(* applies its outcome; the server turns it into a response in between.    *)

\* A JSON body none of whose expected fields is present ({}), every field undefined.
EmptyBody ==
    [valid |-> FALSE, hasState |-> FALSE, id |-> UndefinedId, board |-> UndefinedBoard,
     current_player |-> "undefined", status |-> "undefined", winner |-> "undefined",
     moves |-> 0 - 1, error |-> ""]

\* {id, board, current_player, status, winner, moves}: the body of POST /game, GET /game/{id}
StateBody(id, g) ==
    [valid |-> FALSE, hasState |-> TRUE, id |-> id, board |-> g.board,
     current_player |-> g.current_player, status |-> g.status, winner |-> g.winner,
     moves |-> g.moves, error |-> ""]

\* {valid: true, state: {...}}: the body of an accepted POST /move
AcceptedBody(id, g) == [StateBody(id, g) EXCEPT !.valid = TRUE]

\* {valid: false, error: reason}: the body of a rejected POST /move ("": no error field)
RejectedBody(reason) == [EmptyBody EXCEPT !.error = reason]

Request(kind, gid, r, c) ==
    [kind |-> kind, gid |-> gid, r |-> r, c |-> c, stage |-> "req", body |-> EmptyBody]

Reply(m, stage, body) == [m EXCEPT !.stage = stage, !.body = body]

InFlight == BagCardinality(net)

InFlightOf(kind) == BagCardinality([m \in {x \in BagToSet(net) : x.kind = kind} |-> net[m]])

Send(m) == net (+) SetToBag({m})

Take(m) == net (-) SetToBag({m})

-----------------------------------------------------------------------------
(* The remote game server (POST /game, GET /game/{id}, POST /move).  Its   *)
(* engine decides legality and the result of a move; which positions it    *)
(* calls won or drawn is its business, so the verdict of an accepted move  *)
(* is any of the three statuses.                                           *)

NewGame == [board |-> EmptyBoard, current_player |-> "X", status |-> "ongoing",
            winner |-> "null", moves |-> 0]

Other(p) == IF p = "X" THEN "O" ELSE "X"

Legal(g, r, c) == g.status = "ongoing" /\ Cell(g.board, r, c) = ""

Played(g, r, c, verdict) ==
    [board |-> Place(g.board, r, c, g.current_player),
     current_player |-> Other(g.current_player),
     status |-> verdict,
     winner |-> IF verdict = "win" THEN g.current_player ELSE "null",
     moves |-> g.moves + 1]

Reasons == {"Illegal move", "Cell already taken", ""}

ServerCreate(m) ==
    /\ m.kind = "create" /\ m.stage = "req"
    /\ \/ /\ srvCount < MaxGames
          /\ srvCount' = srvCount + 1
          /\ srv' = [srv EXCEPT ![srvCount + 1] = NewGame]
          /\ \E body \in {StateBody(srvCount + 1, NewGame), EmptyBody} :
                net' = Take(m) (+) SetToBag({Reply(m, "ok", body)})
       \/ /\ net' = Take(m) (+) SetToBag({Reply(m, "http", EmptyBody)})
          /\ UNCHANGED <<srv, srvCount>>

ServerFetch(m) ==
    /\ m.kind = "fetch" /\ m.stage = "req"
    /\ \/ /\ m.gid \in 1..srvCount
          /\ \E body \in {StateBody(m.gid, srv[m.gid]), EmptyBody} :
                net' = Take(m) (+) SetToBag({Reply(m, "ok", body)})
       \/ net' = Take(m) (+) SetToBag({Reply(m, "http", EmptyBody)})
    /\ UNCHANGED <<srv, srvCount>>

ServerMove(m) ==
    /\ m.kind = "move" /\ m.stage = "req"
    /\ \/ /\ m.gid \in 1..srvCount
          /\ Legal(srv[m.gid], m.r, m.c)
          /\ \E verdict \in {"ongoing", "win", "draw"} :
                LET g == Played(srv[m.gid], m.r, m.c, verdict) IN
                /\ srv' = [srv EXCEPT ![m.gid] = g]
                /\ net' = Take(m) (+) SetToBag({Reply(m, "ok", AcceptedBody(m.gid, g))})
          /\ UNCHANGED srvCount
       \/ /\ m.gid \in 1..srvCount
          /\ ~Legal(srv[m.gid], m.r, m.c)
          /\ \E reason \in Reasons :
                net' = Take(m) (+) SetToBag({Reply(m, "ok", RejectedBody(reason))})
          /\ UNCHANGED <<srv, srvCount>>
       \/ /\ net' = Take(m) (+) SetToBag({Reply(m, "http", EmptyBody)})
          /\ UNCHANGED <<srv, srvCount>>

Server ==
    /\ \E m \in BagToSet(net) : ServerCreate(m) \/ ServerFetch(m) \/ ServerMove(m)
    /\ lastOp' = "Server"
    /\ UNCHANGED <<client, pollInterval, phase, timers, effDeps, effCleanup>>

-----------------------------------------------------------------------------
(* The poll effect, useEffect(..., [gameId, status, fetchGameState,        *)
(* pollInterval]).  fetchGameState is useCallback(..., [gameId]): it       *)
(* changes exactly when gameId does.                                       *)

Deps == <<gameId, status, pollInterval>>

Settled == phase # "mounted" \/ effDeps = Deps

\* Clear that clears nothing: the clearInterval calls left out
ClearNothing(ts, h) == ts

\* clearInterval(h); clearInterval(null) and a handle already cleared do nothing
Clear(ts, h) == {t \in ts : t.h # h}

\* The handle setInterval returns: one no live interval has.  The body calls it
\* only with pollInterval null and after the last run's cleanup, when no closure
\* or state holds a cleared handle any more, so handles are named from 1 again.
SetInterval(ts) == CHOOSE h \in 1..(Cardinality(ts) + 1) : \A t \in ts : t.h # h

\* if (!gameId || status !== 'ongoing')
EffectTeardown == ~Truthy(gameId) \/ status # "ongoing"

\* if (!pollInterval)
EffectSchedules == ~EffectTeardown /\ ~Truthy(pollInterval)

\* One run of the effect's body over the timers ts its predecessor's cleanup left.
PollEffect(ts) ==
    /\ effDeps' = Deps
    /\ IF EffectTeardown
       THEN /\ timers' = Clear(ts, pollInterval)
            /\ pollInterval' = NoHandle
            /\ effCleanup' = NoHandle
       ELSE IF EffectSchedules
       THEN /\ timers' = ts \cup {[h |-> SetInterval(ts), gid |-> gameId]}
            /\ pollInterval' = SetInterval(ts)
            /\ effCleanup' = SetInterval(ts)
       ELSE /\ timers' = ts
            /\ effCleanup' = pollInterval
            /\ UNCHANGED pollInterval

\* A render whose dependencies differ from the last run's: the cleanup of the
\* last run, then the body.
RunEffect ==
    /\ phase = "mounted"
    /\ effDeps # Deps
    /\ PollEffect(Clear(timers, effCleanup))
    /\ lastOp' = "RunEffect"
    /\ UNCHANGED <<client, phase, net, srv, srvCount>>

-----------------------------------------------------------------------------
(* startNewGame: the New Game button and the mount effect.                 *)

NetworkError == "Failed to fetch"       \* err.message of the TypeError fetch() rejects with

\* Caught without its fallback: setError(err.message)
CaughtNoFallback(message, fallback) == message

\* err.message || fallback
Caught(message, fallback) == IF message = "" THEN fallback ELSE message

\* The message of the error the catch block receives: the Error thrown on !res.ok,
\* or whatever fetch() rejects with when the request or its response is lost (a
\* TypeError, or an error without a message).
Thrown(m, notOk) ==
    IF m.stage = "http" THEN {notOk, NetworkError, ""} ELSE {NetworkError, ""}

\* setLoading(true); setError(''); fetch(POST /game)
StartNewGame ==
    /\ loading' = TRUE
    /\ error' = ""
    /\ net' = Send(Request("create", NullId, 0, 0))
    /\ UNCHANGED session

\* First render committed: the poll effect runs, then useEffect(() => startNewGame(), []).
Mount ==
    /\ phase = "new"
    /\ phase' = "mounted"
    /\ PollEffect(timers)
    /\ StartNewGame
    /\ lastOp' = "Mount"
    /\ UNCHANGED <<srv, srvCount>>

\* <button onClick={onNewGame} disabled={disabled}>, disabled={loading}
NewGameDisabled == loading

NewGameClick ==
    /\ phase = "mounted"
    /\ ~NewGameDisabled
    /\ InFlight < MaxInFlight
    /\ StartNewGame
    /\ lastOp' = "NewGameClick"
    /\ UNCHANGED <<pollInterval, phase, timers, effDeps, effCleanup, srv, srvCount>>

\* What React does when the render after an update throws (Board calls board.map):
\* the tree is unmounted and the effects' cleanups run.
Rendered(b) ==
    IF b = UndefinedBoard
    THEN /\ phase' = "crashed"
         /\ timers' = Clear(timers, effCleanup)
    ELSE UNCHANGED <<phase, timers>>

CreateResolved(m) ==
    /\ phase = "mounted"
    /\ m.kind = "create" /\ m.stage = "ok"
    /\ net' = Take(m)
    /\ gameId' = m.body.id
    /\ board' = m.body.board
    /\ currentPlayer' = m.body.current_player
    /\ status' = m.body.status
    /\ winner' = OrNull(m.body.winner)
    /\ moves' = OrZero(m.body.moves)
    /\ error' = ""
    /\ loading' = FALSE
    /\ Rendered(m.body.board)
    /\ lastOp' = "CreateResolved"
    /\ UNCHANGED <<pollInterval, effDeps, effCleanup, srv, srvCount>>

\* !res.ok, or fetch() itself rejected (the request or its response was lost)
CreateFailed(m) ==
    /\ phase = "mounted"
    /\ m.kind = "create"
    /\ net' = Take(m)
    /\ \E e \in Thrown(m, "Failed to start new game") :
          error' = Caught(e, "Could not start a new game")
    /\ loading' = FALSE
    /\ lastOp' = "CreateFailed"
    /\ UNCHANGED <<session, pollInterval, phase, timers, effDeps, effCleanup,
                   srv, srvCount>>

-----------------------------------------------------------------------------
(* fetchGameState and the interval that calls it.                          *)

\* if (!gid) return; setLoading(true); fetch(GET /game/gid)
Tick(t) ==
    /\ t \in timers
    /\ InFlight < MaxInFlight
    /\ IF Truthy(t.gid)
       THEN /\ loading' = TRUE
            /\ net' = Send(Request("fetch", t.gid, 0, 0))
            /\ lastOp' = "Tick"
       ELSE /\ UNCHANGED <<loading, net>>
            /\ lastOp' = "TickIgnored"
    /\ UNCHANGED <<session, error, pollInterval, phase, timers, effDeps,
                   effCleanup, srv, srvCount>>

FetchResolved(m) ==
    /\ phase = "mounted"
    /\ m.kind = "fetch" /\ m.stage = "ok"
    /\ net' = Take(m)
    /\ IF m.body.board # UndefinedBoard
       THEN /\ board' = m.body.board
            /\ currentPlayer' = m.body.current_player
            /\ status' = m.body.status
            /\ winner' = m.body.winner
            /\ moves' = m.body.moves
            /\ gameId' = m.body.id
            /\ error' = ""
       ELSE UNCHANGED <<session, error>>
    /\ loading' = FALSE
    /\ lastOp' = "FetchResolved"
    /\ UNCHANGED <<pollInterval, phase, timers, effDeps, effCleanup, srv, srvCount>>

\* FetchFailed with setLoading(false) at the end of the try block instead of in
\* finally: the catch path leaves loading set
FetchFailedNoFinally(m) ==
    /\ phase = "mounted"
    /\ m.kind = "fetch"
    /\ net' = Take(m)
    /\ \E e \in Thrown(m, "Failed to fetch game state") :
          error' = Caught(e, "Could not fetch game state")
    /\ lastOp' = "FetchFailed"
    /\ UNCHANGED <<session, loading, pollInterval, phase, timers, effDeps, effCleanup,
                   srv, srvCount>>

FetchFailed(m) ==
    /\ phase = "mounted"
    /\ m.kind = "fetch"
    /\ net' = Take(m)
    /\ \E e \in Thrown(m, "Failed to fetch game state") :
          error' = Caught(e, "Could not fetch game state")
    /\ loading' = FALSE
    /\ lastOp' = "FetchFailed"
    /\ UNCHANGED <<session, pollInterval, phase, timers, effDeps, effCleanup,
                   srv, srvCount>>

-----------------------------------------------------------------------------
(* handleCellClick and the buttons of the board.                           *)

\* CellDisabled without the loading gate: disabled={status !== 'ongoing'} and no
\* pointerEvents: 'none'
CellDisabledNoLoading(r, c) == status # "ongoing" \/ Cell(board, r, c) # ""

\* <div style={{pointerEvents: loading ? 'none' : 'auto'}}>, Board disabled=
\* {status !== 'ongoing' || loading}, button disabled={disabled || cell !== ''}
CellDisabled(r, c) == status # "ongoing" \/ loading \/ Cell(board, r, c) # ""

\* ClickIgnored without the session test: if (status !== 'ongoing') return;
ClickIgnoredNoSessionTest == status # "ongoing"

\* if (status !== 'ongoing' || !gameId) return;
ClickIgnored == status # "ongoing" \/ ~Truthy(gameId)

CellClick(r, c) ==
    /\ phase = "mounted"
    /\ ~CellDisabled(r, c)
    /\ InFlight < MaxInFlight
    /\ IF ClickIgnored
       THEN /\ UNCHANGED <<loading, error, net>>
            /\ lastOp' = "CellClickIgnored"
       ELSE /\ loading' = TRUE
            /\ error' = ""
            /\ net' = Send(Request("move", gameId, r, c))
            /\ lastOp' = "CellClick"
    /\ UNCHANGED <<session, pollInterval, phase, timers, effDeps, effCleanup,
                   srv, srvCount>>

\* RejectionMessage that ignores the server's reason: setError('Illegal move')
RejectionMessageFixed(reason) == "Illegal move"

\* data.error || 'Illegal move'
RejectionMessage(reason) == IF reason = "" THEN "Illegal move" ELSE reason

\* MoveResolved without setMoves(data.state.moves)
MoveResolvedKeepsMoves(m) ==
    /\ phase = "mounted"
    /\ m.kind = "move" /\ m.stage = "ok"
    /\ net' = Take(m)
    /\ IF m.body.valid /\ m.body.hasState
       THEN /\ board' = m.body.board
            /\ currentPlayer' = m.body.current_player
            /\ status' = m.body.status
            /\ winner' = OrNull(m.body.winner)
            /\ error' = ""
            /\ lastOp' = "MoveAccepted"
            /\ UNCHANGED <<gameId, moves>>
       ELSE /\ error' = RejectionMessage(m.body.error)
            /\ lastOp' = "MoveRejected"
            /\ UNCHANGED session
    /\ loading' = FALSE
    /\ UNCHANGED <<pollInterval, phase, timers, effDeps, effCleanup, srv, srvCount>>

MoveResolved(m) ==
    /\ phase = "mounted"
    /\ m.kind = "move" /\ m.stage = "ok"
    /\ net' = Take(m)
    /\ IF m.body.valid /\ m.body.hasState
       THEN /\ board' = m.body.board
            /\ currentPlayer' = m.body.current_player
            /\ status' = m.body.status
            /\ winner' = OrNull(m.body.winner)
            /\ moves' = m.body.moves
            /\ error' = ""
            /\ lastOp' = "MoveAccepted"
            /\ UNCHANGED gameId
       ELSE /\ error' = RejectionMessage(m.body.error)
            /\ lastOp' = "MoveRejected"
            /\ UNCHANGED session
    /\ loading' = FALSE
    /\ UNCHANGED <<pollInterval, phase, timers, effDeps, effCleanup, srv, srvCount>>

MoveFailed(m) ==
    /\ phase = "mounted"
    /\ m.kind = "move"
    /\ net' = Take(m)
    /\ \E e \in Thrown(m, "Move failed (500)") :
          error' = Caught(e, "Could not submit move")
    /\ loading' = FALSE
    /\ lastOp' = "MoveFailed"
    /\ UNCHANGED <<session, pollInterval, phase, timers, effDeps, effCleanup,
                   srv, srvCount>>

\* The continuation of a handler of a component that is no longer mounted:
\* its state updates are dropped.
Discard(m) ==
    /\ phase = "crashed"
    /\ net' = Take(m)
    /\ lastOp' = "Discard"
    /\ UNCHANGED <<client, pollInterval, phase, timers, effDeps, effCleanup,
                   srv, srvCount>>

-----------------------------------------------------------------------------

Init ==
    /\ gameId = NullId
    /\ board = EmptyBoard
    /\ currentPlayer = "X"
    /\ status = "ongoing"
    /\ winner = "null"
    /\ moves = 0
    /\ loading = FALSE
    /\ error = ""
    /\ pollInterval = NoHandle
    /\ phase = "new"
    /\ timers = {}
    /\ effDeps = <<NullId, "ongoing", NoHandle>>
    /\ effCleanup = NoHandle
    /\ net = EmptyBag
    /\ srv = [id \in 1..(MaxGames + 1) |-> NewGame]
    /\ srvCount = 0
    /\ lastOp = "Init"

Next ==
    \/ Mount
    \/ RunEffect
    \/ NewGameClick
    \/ \E rc \in Cells : CellClick(rc[1], rc[2])
    \/ \E t \in timers : Tick(t)
    \/ Server
    \/ \E m \in BagToSet(net) : CreateResolved(m)
    \/ \E m \in BagToSet(net) : CreateFailed(m)
    \/ \E m \in BagToSet(net) : FetchResolved(m)
    \/ \E m \in BagToSet(net) : FetchFailed(m)
    \/ \E m \in BagToSet(net) : MoveResolved(m)
    \/ \E m \in BagToSet(net) : MoveFailed(m)
    \/ \E m \in BagToSet(net) : Discard(m)

Spec == Init /\ [][Next]_vars

-----------------------------------------------------------------------------
(* Properties.                                                             *)

SessionOngoing == Truthy(gameId) /\ status = "ongoing"

Terminal == status \in {"win", "draw"}

LiveTimers == Cardinality(timers)

\* C1: in every settled state the number of live poll timers is one if a session
\* exists and status is 'ongoing', and zero otherwise.
C1_OneTimerIffOngoing ==
    Settled => LiveTimers = (IF SessionOngoing THEN 1 ELSE 0)

\* C2: at every instant at most one create, fetch or move request is in flight.
C2_AtMostOneInFlight == InFlight <= 1

\* C3: once status is 'win' or 'draw', only the response of a startNewGame call
\* changes board, currentPlayer, winner or status.
C3_TerminalSticky ==
    [][(Terminal /\ lastOp' # "CreateResolved")
        => <<board, currentPlayer, winner, status>>' = <<board, currentPlayer, winner, status>>]_vars

\* C4: the session id changes only when a create response is applied; no fetch or
\* move response overwrites the session the client holds with another session's.
C4_IdChangesOnlyOnCreate ==
    [][gameId' # gameId => lastOp' = "CreateResolved"]_vars

\* C5: a poll tick dispatches a fetch only when loading is false and a session
\* exists with status 'ongoing'; any other tick changes nothing.
C5_TickGuarded ==
    [][lastOp' = "Tick" => (~loading /\ SessionOngoing)]_vars

\* C6: a cell activation dispatches no move request and changes no state when
\* loading is true, no session exists, or status is not 'ongoing'.
C6_MoveGuarded ==
    [][/\ InFlightOf("move")' > InFlightOf("move") => (~loading /\ SessionOngoing)
       /\ lastOp' = "CellClickIgnored"
            => /\ ~SessionOngoing
               /\ <<client, pollInterval, phase, timers, effDeps, effCleanup, net, srv,
                    srvCount>>' =
                  <<client, pollInterval, phase, timers, effDeps, effCleanup, net, srv,
                    srvCount>>]_vars

C6_Witness == lastOp = "CellClickIgnored" /\ ~Truthy(gameId) /\ ~loading

\* C7: when the server rejects a move, board, currentPlayer, status, winner, moves
\* and gameId are unchanged, error is the server's reason, and no poll timer is
\* stopped.
C7_RejectedMove ==
    [][lastOp' = "MoveRejected"
        => /\ session' = session
           /\ timers' = timers /\ pollInterval' = pollInterval
           /\ error' # ""
           /\ \E m \in BagToSet(net) :
                /\ m.kind = "move" /\ m.stage = "ok" /\ ~m.body.valid
                /\ net' = Take(m)
                /\ m.body.error # "" => error' = m.body.error]_vars

C7_Witness ==
    /\ lastOp = "MoveRejected"
    /\ error = "Cell already taken"
    /\ SessionOngoing
    /\ timers # {}

C9_FailedFetchKeepsPolling ==
    (lastOp = "FetchFailed" /\ SessionOngoing) => \E t \in timers : t.gid = gameId

\* C10: error is cleared at the start of every request attempt, poll fetches
\* included: while a request just dispatched is in flight no earlier error shows.
C10_ErrorClearedOnDispatch ==
    [][lastOp' \in {"Mount", "NewGameClick", "CellClick", "Tick"} => error' = ""]_vars

Positions == (0..(BoardSize - 1)) \X (0..(BoardSize - 1))

\* C11: loading is true in every state in which a create, fetch or move request
\* is in flight.
C11_LoadingWhileInFlight == InFlight > 0 => loading

\* C12: while the client stays in one session its moves counter never decreases
\* and no board cell that is non-empty becomes empty again.
C12_MonotoneWithinSession ==
    [][(Truthy(gameId) /\ gameId' = gameId)
        => /\ moves' >= moves
           /\ \A rc \in Positions :
                Cell(board, rc[1], rc[2]) # "" => Cell(board', rc[1], rc[2]) # ""]_vars

\* C13: after New Game is triggered no fetch for the old session id is dispatched
\* while the create request is in flight, and once creation has succeeded with
\* status 'ongoing' a poll timer addressed to the new session id is active (the
\* server numbers its sessions from 1: an id above 1 is a session New Game made).
C13_NewGameRestartsPolling ==
    /\ [][lastOp' = "Tick" => InFlightOf("create") = 0]_vars
    /\ []((Settled /\ SessionOngoing /\ gameId > 1)
            => \E t \in timers : t.gid = gameId)

\* The five fields a response replaces.
GameFields == [board |-> board, current_player |-> currentPlayer, status |-> status,
               winner |-> winner, moves |-> moves]

\* What startNewGame stores of a body without any of the fields.
FieldsOfEmptyBody ==
    [board |-> EmptyBody.board, current_player |-> EmptyBody.current_player,
     status |-> EmptyBody.status, winner |-> OrNull(EmptyBody.winner),
     moves |-> OrZero(EmptyBody.moves)]

Filled(b) == {rc \in Positions : Cell(b, rc[1], rc[2]) # ""}

KeepOnly(b, S) ==
    [i \in 1..BoardSize |->
        [j \in 1..BoardSize |-> IF <<i - 1, j - 1>> \in S THEN b[i][j] ELSE ""]]

\* The states a game of the server can have had: the one it has, and ongoing
\* ones with some of its marks (a superset: the marks were placed one by one).
Past(g) ==
    {g} \cup
    {[board |-> KeepOnly(g.board, S),
      current_player |-> IF Cardinality(S) % 2 = 0 THEN "X" ELSE "O",
      status |-> "ongoing", winner |-> "null", moves |-> Cardinality(S)] :
        S \in SUBSET Filled(g.board)}

Served == UNION {Past(srv[id]) : id \in 1..srvCount}

\* C14: an accepted move response replaces board, currentPlayer, status, winner
\* and moves by the values of that response, and in every state the five fields
\* are the initial ones or those of one state of one game of the server (of one
\* body without fields, when the render has thrown), never a mix of two.
C14_FieldsFromOneResponse ==
    /\ [][lastOp' = "MoveAccepted"
            => \E m \in BagToSet(net) :
                /\ m.kind = "move" /\ m.stage = "ok" /\ net' = Take(m)
                /\ GameFields' = [board |-> m.body.board,
                                  current_player |-> m.body.current_player,
                                  status |-> m.body.status,
                                  winner |-> OrNull(m.body.winner),
                                  moves |-> m.body.moves]]_vars
    /\ [](IF phase = "crashed"
          THEN GameFields = FieldsOfEmptyBody
          ELSE GameFields \in Served \cup {NewGame})

C14_Witness == lastOp = "MoveAccepted" /\ status = "win" /\ moves = 1 /\ winner = "X"

\* C15: a success response whose body has no board (create or fetch) is treated
\* as an error: error becomes non-empty and no session field changes.
C15_MalformedBodyIsError ==
    [][\A m \in BagToSet(net) :
        (/\ lastOp' \in {"CreateResolved", "FetchResolved"}
         /\ net' = Take(m)
         /\ m.kind \in {"create", "fetch"} /\ m.stage = "ok"
         /\ m.body.board = UndefinedBoard)
        => (error' # "" /\ session' = session)]_vars

CellEmpty(rc) == Cell(board, rc[1], rc[2]) = ""

\* C16: a cell is click-enabled if and only if it is empty, status is 'ongoing'
\* and loading is false: so the buttons are rendered, and so handleCellClick can
\* be invoked (for the cells the players click, below the cap on requests).
C16_CellEnabledIff ==
    phase = "mounted"
        => /\ \A rc \in Positions :
                ~CellDisabled(rc[1], rc[2])
                    <=> (CellEmpty(rc) /\ status = "ongoing" /\ ~loading)
           /\ \A rc \in Cells :
                InFlight < MaxInFlight
                    => ((ENABLED CellClick(rc[1], rc[2]))
                            <=> (CellEmpty(rc) /\ status = "ongoing" /\ ~loading))

C16_Witness ==
    /\ lastOp = "MoveAccepted" /\ status = "win"
    /\ \E rc \in Positions : CellEmpty(rc)
    /\ \A rc \in Positions : CellDisabled(rc[1], rc[2])

\* C17: in every reachable state, settled or not, at most one poll timer is live.
C17_AtMostOneTimer == LiveTimers <= 1

C17_Witness == lastOp = "RunEffect" /\ LiveTimers = 1 /\ gameId > 1

\* C18: while no create has succeeded (gameId null) no poll timer exists and no
\* fetch or move request is in flight, a failed create leaves gameId null and
\* sets error, and no fetch or move is ever dispatched with an empty session id.
C18_NoSessionNoRequests ==
    /\ [](gameId = NullId
            => /\ timers = {} /\ pollInterval = NoHandle
               /\ InFlightOf("fetch") = 0 /\ InFlightOf("move") = 0)
    /\ [](\A m \in BagToSet(net) : m.kind \in {"fetch", "move"} => Truthy(m.gid))
    /\ [][(lastOp' = "CreateFailed" /\ gameId = NullId)
            => (gameId' = NullId /\ error' # "")]_vars

C18_Witness ==
    /\ lastOp = "CellClickIgnored" /\ gameId = NullId /\ error # ""
    /\ InFlight = 0 /\ Settled

\* C19: whenever no create, fetch or move request is in flight, loading is false.
C19_IdleNotLoading == InFlight = 0 => ~loading

C19_Witness == lastOp \in {"FetchFailed", "MoveRejected"} /\ InFlight = 0

\* C20: in every settled state pollInterval is non-null if and only if the timer
\* it names is live.
C20_HandleIffTimerLive ==
    Settled => (Truthy(pollInterval) <=> \E t \in timers : t.h = pollInterval)

====
